---- MODULE Spec2Model ----
(***************************************************************************)
(* Model of the API key rotation manager, src/agent/api_rotation.py        *)
(* (class APIKeyRotationManager).                                          *)
(*                                                                         *)
(* Time is the wall clock time.time(), counted in ticks of 0.25 s since    *)
(* the Unix epoch.  The dataclass default last_used = 0.0 is the epoch     *)
(* itself, and the wall clock of a running process is later than the       *)
(* epoch by more than one cooldown, so the clock starts after RateLimit.   *)
(* Computation takes no time: the clock advances only while every caller   *)
(* is idle, asleep in time.sleep, or blocked on the lock.  A run holds at  *)
(* most MaxCalls calls of the manager's operations, made by the callers    *)
(* in `threads`: one caller under Spec, two concurrent ones under SpecConc.*)
(***************************************************************************)
EXTENDS Integers, Sequences, FiniteSets, TLC

\* ------------------------------------------------------------- bounds
MaxKeys == 2      \* longest configured credential list
RateLimit == 3    \* rate_limit_seconds handed to the constructor, in ticks
MaxCalls == 4     \* operations called on the manager in one run

\* the 0.5 s cap on one sleep of wait_for_available_key, in ticks
PollCap == 2

ClockStart == RateLimit + 1
\* the clock is followed for one cooldown and one tick after construction
MaxTime == ClockStart + RateLimit + 1
\* the largest max_wait_seconds a caller passes: more than one sleep
MaxWait == PollCap + 1

\* ------------------------------------------------------------- values
\* Credentials are strings, modelled as sequences of characters.
KeyA == <<"k", "e", "y", "-", "A">>
KeyB == <<"b", "2">>
KeyX == <<"x", "x", "x">>          \* a credential that is in no pool
Credentials == {KeyA, KeyB}
AnyKey == Credentials \cup {KeyX}

AllThreads == {1, 2}
NoThread == 0

\* Optional[str]
NoKey == [some |-> FALSE, key |-> <<>>]
Some(k) == [some |-> TRUE, key |-> k]
\* Python truthiness of an Optional[str]: None and "" are false
Truthy(r) == r.some /\ r.key # <<>>

Never == -1

\* APIKeyState(key=key): last_used 0.0, is_available True, error_count 0
APIKeyState(k) ==
    [key |-> k, last_used |-> 0, is_available |-> TRUE, error_count |-> 0]

RECURSIVE SeqsUpTo(_, _)
SeqsUpTo(S, n) ==
    IF n = 0 THEN {<<>>}
    ELSE LET shorter == SeqsUpTo(S, n - 1)
         IN  shorter \cup {Append(s, k) : s \in shorter, k \in S}

\* The manager only compares credentials for equality, so the configured
\* lists are taken up to renaming: the first credential is KeyA.
Pools == {p \in SeqsUpTo(Credentials, MaxKeys) : p # <<>> => p[1] = KeyA}

VARIABLES
    key_states,          \* self.key_states
    current_index,       \* self.current_index
    rate_limit_seconds,  \* self.rate_limit_seconds
    lock,                \* self.lock: NoThread, or the caller holding it
    now,                 \* time.time()
    threads,             \* the callers that use the manager
    pc,                  \* each caller's position
    start_time,          \* wait_for_available_key: start_time
    max_wait_seconds,    \* wait_for_available_key: max_wait_seconds
    wake,                \* the time at which the caller's time.sleep ends
    marking,             \* mark_key_error: the caller's arguments and the
                         \* error_count it has read
    chat,                \* LLMClient.chat_completion: the caller's position,
                         \* its api_key, the response it got, the calls it
                         \* still makes on the key manager and the reports
                         \* it has made
    saw,                 \* some slot was eligible during the caller's wait
    last,                \* the last call of an operation, and its result
    report,              \* the dict returned by the last get_status
    acked,               \* per credential: time of its last mark_key_used
    disabled,            \* credentials disabled since the last enable_all_keys
    fresh,               \* no mark_key_used/mark_key_error call so far
    grants,              \* results of the first get_available_key calls
    calls,               \* operations called on the manager so far
    budget,              \* operations the callers make in one run
    held,                \* per caller: the credential it obtained last and
                         \* has not reported on yet
    passed,              \* per slot: the get_available_key calls in a row
                         \* that returned another slot while it was eligible
    failed,              \* per credential: the mark_key_error calls
                         \* completed since the last enable_all_keys
    script               \* calls of the end-to-end scenario made so far

vars == <<key_states, current_index, rate_limit_seconds, lock, now, threads,
          pc, start_time, max_wait_seconds, wake, saw, last, report,
          acked, disabled, fresh, grants, calls, budget, held, passed,
          marking, chat, failed, script>>

\* ------------------------------------------------------ pure functions

\* the sequence w occurs in the sequence s as a run of consecutive elements
Contains(s, w) ==
    \E i \in 0..(Len(s) - Len(w)) : SubSeq(s, i + 1, i + Len(w)) = w

\* the lock is handed to whoever asks, held or not
NoExclusion(l) == TRUE
\* `with self.lock`: the lock l can be taken
Acquirable(l) == l = NoThread

\* a slot is handed out whenever it is available, cooling or not
EligibleNoCooldown(s, t, rl) == s.is_available
\* a slot counts as cooled down only after more than rate_limit_seconds
EligibleStrict(s, t, rl) == s.is_available /\ t - s.last_used > rl
\* lines 67-70: the slot can be handed out at time t
Eligible(s, t, rl) ==
    s.is_available /\ t - s.last_used >= rl

\* lines 63-84: the scan of get_available_key, `attempts` slots left to look at
RECURSIVE Scan(_, _, _, _, _)
Scan(ks, idx, attempts, t, rl) ==
    IF attempts = 0
    THEN [ret |-> NoKey, index |-> idx]
    ELSE IF Eligible(ks[idx + 1], t, rl)
         THEN [ret |-> Some(ks[idx + 1].key), index |-> (idx + 1) % Len(ks)]
         ELSE Scan(ks, (idx + 1) % Len(ks), attempts - 1, t, rl)

\* lines 54-99: the result of get_available_key and the cursor it leaves
GetKeySkipFirst(ks, idx, t, rl) ==
    IF ks = <<>>
    THEN [ret |-> NoKey, index |-> idx]
    ELSE Scan(ks, (idx + 1) % Len(ks), Len(ks), t, rl)
GetKeyNoRewind(ks, idx, t, rl) ==
    IF ks = <<>>
    THEN [ret |-> NoKey, index |-> idx]
    ELSE LET r == Scan(ks, idx, Len(ks), t, rl)
         IN  IF r.ret.some THEN r
             ELSE [ret |-> NoKey, index |-> (idx + 1) % Len(ks)]
\* a get_available_key that leaves the cursor on the slot it returns
GetKeyKeepsCursor(ks, idx, t, rl) ==
    IF ks = <<>>
    THEN [ret |-> NoKey, index |-> idx]
    ELSE LET r == Scan(ks, idx, Len(ks), t, rl)
         IN  IF r.ret.some
             THEN [ret |-> r.ret, index |-> (r.index + Len(ks) - 1) % Len(ks)]
             ELSE r
\* a get_available_key that moves the cursor past the last slot without
\* wrapping when it returns that slot
GetKeyNoModulo(ks, idx, t, rl) ==
    IF ks = <<>>
    THEN [ret |-> NoKey, index |-> idx]
    ELSE LET r == Scan(ks, idx % Len(ks), Len(ks), t, rl)
         IN  IF r.ret.some /\ r.index = 0
             THEN [ret |-> r.ret, index |-> Len(ks)]
             ELSE r
GetAvailableKey(ks, idx, t, rl) ==
    IF ks = <<>>
    THEN [ret |-> NoKey, index |-> idx]
    ELSE Scan(ks, idx, Len(ks), t, rl)

\* the first slot holding credential k (the loops with break), 0 if none
FirstSlot(ks, k) ==
    IF \E i \in 1..Len(ks) : ks[i].key = k
    THEN CHOOSE i \in 1..Len(ks) :
            ks[i].key = k /\ \A j \in 1..(i - 1) : ks[j].key # k
    ELSE 0

\* lines 144-148: the slots after mark_key_used(k) at time t
MarkUsedOrAdopt(ks, k, t) ==
    IF ks = <<>> THEN ks
    ELSE LET i == IF FirstSlot(ks, k) = 0 THEN 1 ELSE FirstSlot(ks, k)
         IN  [ks EXCEPT ![i].last_used = t]
\* a mark_key_used that also clears the slot's error count
MarkUsedResetsErrors(ks, k, t) ==
    LET i == FirstSlot(ks, k)
    IN  IF i = 0 THEN ks
        ELSE [ks EXCEPT ![i].last_used = t, ![i].error_count = 0]
\* a mark_key_used that stamps every slot holding the credential
MarkUsedAll(ks, k, t) ==
    [i \in 1..Len(ks) |->
        IF ks[i].key = k THEN [ks[i] EXCEPT !.last_used = t] ELSE ks[i]]
MarkUsed(ks, k, t) ==
    LET i == FirstSlot(ks, k)
    IN  IF i = 0 THEN ks ELSE [ks EXCEPT ![i].last_used = t]

\* line 161: the slots as mark_key_error(k) saw them when it read n as the
\* error_count of the slot of k
AsRead(ks, k, n) ==
    LET i == FirstSlot(ks, k)
    IN  IF i = 0 THEN ks ELSE [ks EXCEPT ![i].error_count = n]

\* lines 159-170: the slots after mark_key_error(k, d)
MarkErrorKeepsEnabled(ks, k, d) ==
    LET i == FirstSlot(ks, k)
    IN  IF i = 0 THEN ks
        ELSE [ks EXCEPT ![i].error_count = @ + 1]
\* a mark_key_error that also clears the cooldown of the slot
MarkErrorClearsCooldown(ks, k, d) ==
    LET i == FirstSlot(ks, k)
    IN  IF i = 0 THEN ks
        ELSE [ks EXCEPT ![i].error_count = @ + 1,
                        ![i].last_used = 0,
                        ![i].is_available = IF d THEN FALSE ELSE @]
MarkError(ks, k, d) ==
    LET i == FirstSlot(ks, k)
    IN  IF i = 0 THEN ks
        ELSE [ks EXCEPT ![i].error_count = @ + 1,
                        ![i].is_available = IF d THEN FALSE ELSE @]

\* lines 175-177: the slots after enable_all_keys
EnableAllResetsCooldown(ks) ==
    [i \in 1..Len(ks) |->
        [ks[i] EXCEPT !.is_available = TRUE, !.error_count = 0,
                      !.last_used = 0]]
EnableAll(ks) ==
    [i \in 1..Len(ks) |->
        [ks[i] EXCEPT !.is_available = TRUE, !.error_count = 0]]

\* a get_available_key that also starts the cooldown of the slot it returns
GetMarksUsed(ks, ret, t) == IF ret.some THEN MarkUsed(ks, ret.key, t) ELSE ks

\* a get_available_key that also clears the error count of the slot it
\* returns
GetClearsErrors(ks, ret, t) ==
    IF ret.some
    THEN [ks EXCEPT ![FirstSlot(ks, ret.key)].error_count = 0]
    ELSE ks

\* lines 72-81 and 99: the slots after get_available_key returned ret at
\* time t ("Don't mark as used yet"): no slot is written
SlotsAfterGet(ks, ret, t) == ks

\* ---- src/agent/core.py, LLMClient.chat_completion

\* the outcomes of the request of lines 66-90
Responses ==
    {"ok", "http429", "http_error", "transport", "bad_json", "bad_json_old",
     "no_choices", "bad_choice"}

NoException == [cls |-> "", msg |-> <<>>]
\* str.lower() of a word of the messages below
LowerWord(w) == IF w = "Rate" THEN "rate" ELSE IF w = "Invalid" THEN "invalid"
                ELSE IF w = "Expecting" THEN "expecting" ELSE w
Lower(msg) == [i \in 1..Len(msg) |-> LowerWord(msg[i])]

\* no message counts as one about the rate limit
NeverRateLimit(e) == FALSE
\* line 98: "rate limit" in str(e).lower()
MentionsRateLimit(e) == Contains(Lower(e.msg), <<"rate", "limit">>)

\* lines 50-90: the calls the try block makes on the key manager for the
\* response o, and the exception it raises
ChatBody(o) ==
    CASE o = "ok" ->
           [todo |-> <<"mark_key_used">>, exc |-> NoException]
      [] o = "http429" ->
           [todo |-> <<"mark_key_error">>,
            exc |-> [cls |-> "Exception",
                     msg |-> <<"Rate", "limit", "exceeded.">>]]
      [] o \in {"http_error", "transport", "bad_json"} ->
           [todo |-> <<>>,
            exc |-> [cls |-> "RequestException", msg |-> <<o>>]]
      [] o = "bad_json_old" ->
           [todo |-> <<>>,
            exc |-> [cls |-> "ValueError", msg |-> <<"Expecting", "value">>]]
      [] o = "no_choices" ->
           [todo |-> <<>>,
            exc |-> [cls |-> "Exception",
                     msg |-> <<"Invalid", "response", "format">>]]
      [] o = "bad_choice" ->
           [todo |-> <<>>,
            exc |-> [cls |-> "KeyError", msg |-> <<"'message'">>]]

\* lines 92-100: the calls on the key manager after the except clauses
ChatPlan(o) ==
    LET b == ChatBody(o)
    IN  IF b.exc = NoException THEN b.todo
        ELSE IF b.exc.cls = "RequestException"
             THEN Append(b.todo, "mark_key_error")
             ELSE IF ~MentionsRateLimit(b.exc)
                  THEN Append(b.todo, "mark_key_error")
                  ELSE b.todo

\* no chat_completion in progress or finished
NotChatting ==
    [at |-> "idle", key |-> NoKey, out |-> "", todo |-> <<>>, n |-> 0]

Min(a, b) == IF a < b THEN a ELSE b
Max(a, b) == IF a > b THEN a ELSE b

\* lines 120-129: the sleep of one round of wait_for_available_key
SleepTime(ks, t, rl) ==
    LET waits == {rl - (t - ks[i].last_used) : i \in
                    {j \in 1..Len(ks) : ks[j].is_available}}
        pos == {w \in waits : w > 0}
    IN  IF pos = {} THEN PollCap
        ELSE Min(CHOOSE w \in pos : \A v \in pos : w <= v, PollCap)

\* line 198: f"...{key[-4:]}"
KeySuffix(k) ==
    <<".", ".", ".">> \o SubSeq(k, Max(1, Len(k) - 3), Len(k))

\* an entry of status['keys'] whose ready_now looks at the cooldown only
KeyInfoReadyWhenCool(ks, i, t, rl) ==
    LET until == Max(0, rl - (t - ks[i].last_used))
    IN  [index |-> i - 1,
         key_suffix |-> KeySuffix(ks[i].key),
         is_available |-> ks[i].is_available,
         error_count |-> ks[i].error_count,
         time_until_available |-> until,
         ready_now |-> until = 0]

\* lines 192-203: one entry of status['keys']
KeyInfo(ks, i, t, rl) ==
    LET until == Max(0, rl - (t - ks[i].last_used))
    IN  [index |-> i - 1,
         key_suffix |-> KeySuffix(ks[i].key),
         is_available |-> ks[i].is_available,
         error_count |-> ks[i].error_count,
         time_until_available |-> until,
         ready_now |-> ks[i].is_available /\ until = 0]

\* a get_status whose per-slot entries are read from another state of the
\* pool than its counters
StatusMixed(ks, t, rl) ==
    LET info == [i \in 1..Len(ks) |-> KeyInfo(EnableAll(ks), i, t, rl)]
        n(P(_)) == Cardinality({i \in 1..Len(ks) : P(ks[i])})
        IsDisabled(e) == ~e.is_available
        IsLimited(e) == e.is_available /\ t - e.last_used < rl
        IsReady(e) == e.is_available /\ ~(t - e.last_used < rl)
    IN  [total_keys |-> Len(ks),
         available_keys |-> n(IsReady),
         rate_limited_keys |-> n(IsLimited),
         disabled_keys |-> n(IsDisabled),
         keys |-> info]

\* lines 183-214: the dict get_status returns
Status(ks, t, rl) ==
    LET info == [i \in 1..Len(ks) |-> KeyInfo(ks, i, t, rl)]
        n(P(_)) == Cardinality({i \in 1..Len(ks) : P(info[i])})
        IsDisabled(e) == ~e.is_available
        IsLimited(e) == e.is_available /\ e.time_until_available > 0
        IsReady(e) == e.is_available /\ ~(e.time_until_available > 0)
    IN  [total_keys |-> Len(ks),
         available_keys |-> n(IsReady),
         rate_limited_keys |-> n(IsLimited),
         disabled_keys |-> n(IsDisabled),
         keys |-> info]

NoReport == [total_keys |-> -1, available_keys |-> -1,
             rate_limited_keys |-> -1, disabled_keys |-> -1, keys |-> <<>>]

\* ----------------------------------------------------------- bookkeeping

\* the record of the last call: the operation's name, its credential argument,
\* what it returned, and for wait_for_available_key its max_wait_seconds,
\* the time it took and whether some slot was eligible during it; flag is
\* disable_temporarily for mark_key_error, and for enable_all_keys whether
\* some slot was disabled when it was called
Result(op, arg, ret, wait, elapsed, sw, flag) ==
    [op |-> op, arg |-> arg, ret |-> ret, wait |-> wait,
     elapsed |-> elapsed, saw |-> sw, flag |-> flag]
Returned(op, ret) == Result(op, <<>>, ret, 0, 0, FALSE, FALSE)

AnyEligible(ks, t, rl) == \E i \in 1..Len(ks) : Eligible(ks[i], t, rl)

\* the first Len(pool) results of get_available_key on a manager that has
\* received no report
Granted(ret) ==
    IF fresh /\ Len(grants) < Len(key_states)
    THEN Append(grants, ret) ELSE grants

\* a waiting caller notes whether some slot is eligible (evaluated last)
Observe ==
    saw' = [t \in AllThreads |->
              pc'[t] # "idle" /\
              (saw[t] \/ AnyEligible(key_states', now', rate_limit_seconds))]

\* The end-to-end scenario on the pool [A, B]: the calls in order.  Calls
\* 4 to 6 are made before the cooldown of A, started by call 3, is over, and
\* call 7 after it.
ScriptPool == <<KeyA, KeyB>>
ScriptCalls ==
    << [op |-> "try_acquire", arg |-> <<>>],
       [op |-> "try_acquire", arg |-> <<>>],
       [op |-> "report_success", arg |-> KeyA],
       [op |-> "try_acquire", arg |-> <<>>],
       [op |-> "report_success", arg |-> KeyB],
       [op |-> "try_acquire", arg |-> <<>>],
       [op |-> "try_acquire", arg |-> <<>> ] >>
ScriptLen == Len(ScriptCalls)
\* the run has left the scenario
Off == ScriptLen + 1

\* the call recorded in l, made now, is call n of the scenario
OnScript(n, l) ==
    /\ l.op = ScriptCalls[n].op
    /\ l.arg = ScriptCalls[n].arg
    /\ n \in {4, 5, 6} => now < acked[KeyA] + rate_limit_seconds
    /\ n = ScriptLen => now > acked[KeyA] + rate_limit_seconds

\* how far the run has followed the scenario (evaluated last)
Follow ==
    script' = IF calls' = calls THEN script
              ELSE IF script # Off /\ script < ScriptLen
                      /\ OnScript(script + 1, last')
                   THEN script + 1
                   ELSE Off

\* the credential caller t has in flight: the one its last successful
\* get_available_key returned, until t reports on it (evaluated last)
\* the step, taken by caller t, is a run of get_available_key
GetRan(t) ==
    /\ t # NoThread
    /\ \/ calls' = calls + 1 /\ last'.op = "try_acquire"
       \/ pc[t] = "get" /\ pc'[t] # "get"

Hold(t) ==
    held' = IF GetRan(t) /\ last'.ret.some
            THEN [held EXCEPT ![t] = last'.ret]
            ELSE IF /\ calls' = calls + 1
                    /\ last'.op \in {"report_success", "report_failure"}
                    /\ held[t] = Some(last'.arg)
                 THEN [held EXCEPT ![t] = NoKey]
                 ELSE held

\* for every slot, how many get_available_key calls in a row have returned
\* another slot since it was last returned or last not eligible
\* (evaluated last)
PassOver(t) ==
    passed' =
        [i \in 1..Len(key_states') |->
            IF ~Eligible(key_states'[i], now', rate_limit_seconds')
            THEN 0
            ELSE IF GetRan(t) /\ last'.ret.some
                 THEN IF i = ((current_index' + Len(key_states') - 1)
                                 % Len(key_states')) + 1
                      THEN 0
                      ELSE passed[i] + 1
                 ELSE passed[i]]

InPool(k) == \E i \in 1..Len(key_states) : key_states[i].key = k

\* no mark_key_error in progress
NotMarking == [arg |-> <<>>, flag |-> FALSE, read |-> 0]

\* per credential of the pool, the mark_key_error calls completed since
\* the last enable_all_keys (evaluated last)
CountFailures ==
    failed' = IF calls' = calls THEN failed
              ELSE IF last'.op = "enable_all"
                   THEN [k \in Credentials |-> 0]
                   ELSE IF last'.op = "report_failure" /\ InPool(last'.arg)
                        THEN [failed EXCEPT ![last'.arg] = @ + 1]
                        ELSE failed

\* the bookkeeping of every step, taken by caller t (evaluated last)
Ghosts(t) ==
    /\ Observe
    /\ CountFailures
    /\ Follow
    /\ Hold(t)
    /\ PassOver(t)
    /\ UNCHANGED budget

Idle(t) == t \in threads /\ pc[t] = "idle"

\* caller t calls an operation of the manager
Call(t) == Idle(t) /\ calls < budget /\ calls' = calls + 1


\* --------------------------------------------------------------- Init

\* lines 27-45: __init__(api_keys, rate_limit_seconds)
InitManagerAt(callers, pools, b, t0) ==
    /\ key_states \in {[i \in 1..Len(p) |-> APIKeyState(p[i])] : p \in pools}
    /\ current_index = 0
    /\ rate_limit_seconds = RateLimit
    /\ lock = NoThread
    /\ now = t0
    /\ threads = callers
    /\ pc = [t \in AllThreads |-> "idle"]
    /\ start_time = [t \in AllThreads |-> 0]
    /\ max_wait_seconds = [t \in AllThreads |-> 0]
    /\ wake = [t \in AllThreads |-> 0]
    /\ saw = [t \in AllThreads |-> FALSE]
    /\ last = Returned("init", NoKey)
    /\ report = NoReport
    /\ acked = [k \in Credentials |-> Never]
    /\ disabled = {}
    /\ fresh = TRUE
    /\ grants = <<>>
    /\ calls = 0
    /\ budget = b
    /\ held = [t \in AllThreads |-> NoKey]
    /\ marking = [t \in AllThreads |-> NotMarking]
    /\ chat = [t \in AllThreads |-> NotChatting]
    /\ failed = [k \in Credentials |-> 0]
    /\ passed = [i \in 1..Len(key_states) |-> 0]
    /\ script = IF [i \in 1..Len(key_states) |-> key_states[i].key]
                    = ScriptPool
                THEN 0 ELSE Off

\* the manager is constructed when time.time() is past rate_limit_seconds,
\* as it is on a clock that counts from 1970
InitManager(callers, pools, b) == InitManagerAt(callers, pools, b, ClockStart)

Init == InitManager({1}, Pools, MaxCalls)

\* ------------------------------------------------------------- actions

\* lines 47-99: get_available_key called directly
TryAcquire(t) ==
    /\ Call(t)
    /\ key_states = <<>> \/ Acquirable(lock)
    /\ LET r == GetAvailableKey(key_states, current_index, now,
                                rate_limit_seconds)
       IN  /\ current_index' = r.index
           /\ key_states' = SlotsAfterGet(key_states, r.ret, now)
           /\ last' = Returned("try_acquire", r.ret)
           /\ grants' = Granted(r.ret)
    /\ report' = NoReport
    /\ UNCHANGED <<rate_limit_seconds, lock, now, threads, pc,
                   start_time, max_wait_seconds, wake, acked, disabled,
                   fresh>>
    /\ UNCHANGED <<marking, chat>>
    /\ Ghosts(t)

\* lines 135-148: mark_key_used(api_key)
MarkKeyUsed(t, k) ==
    /\ Call(t)
    /\ Acquirable(lock)
    /\ key_states' = MarkUsed(key_states, k, now)
    /\ last' = Result("report_success", k, NoKey, 0, 0, FALSE, FALSE)
    /\ report' = NoReport
    /\ acked' = IF InPool(k) THEN [acked EXCEPT ![k] = now] ELSE acked
    /\ fresh' = FALSE
    /\ grants' = <<>>
    /\ UNCHANGED <<current_index, rate_limit_seconds, lock, now, threads, pc,
                   start_time, max_wait_seconds, wake, disabled>>
    /\ UNCHANGED <<marking, chat>>
    /\ Ghosts(t)

\* lines 150-170: mark_key_error(api_key, disable_temporarily), in one step
MarkKeyError(t, k, d) ==
    /\ Call(t)
    /\ Acquirable(lock)
    /\ key_states' = MarkError(key_states, k, d)
    /\ last' = Result("report_failure", k, NoKey, 0, 0, FALSE, d)
    /\ report' = NoReport
    /\ disabled' = IF d /\ InPool(k) THEN disabled \cup {k} ELSE disabled
    /\ fresh' = FALSE
    /\ grants' = <<>>
    /\ UNCHANGED <<current_index, rate_limit_seconds, lock, now, threads, pc,
                   start_time, max_wait_seconds, wake, acked>>
    /\ UNCHANGED <<marking, chat>>
    /\ Ghosts(t)

\* The same operation in the two steps that concurrent callers can tell
\* apart.
\* lines 158-161: mark_key_error takes the lock, finds the slot and reads
\* its error_count
MarkKeyErrorRead(t, k, d) ==
    /\ Idle(t)
    /\ calls < budget
    /\ Acquirable(lock)
    /\ lock' = t
    /\ pc' = [pc EXCEPT ![t] = "mark"]
    /\ marking' = [marking EXCEPT ![t] =
                     [arg |-> k, flag |-> d,
                      read |-> IF FirstSlot(key_states, k) = 0 THEN 0
                               ELSE key_states[FirstSlot(key_states, k)]
                                       .error_count]]
    /\ UNCHANGED <<key_states, current_index, rate_limit_seconds, now,
                   threads, start_time, max_wait_seconds, wake, last,
                   report, acked, disabled, fresh, grants, calls, chat>>
    /\ Ghosts(t)

\* lines 161-170: error_count += 1 stores the count read plus one, the slot
\* is disabled if asked, and the with block releases the lock
MarkKeyErrorWrite(t) ==
    /\ t \in threads
    /\ pc[t] = "mark"
    /\ LET k == marking[t].arg
           d == marking[t].flag
       IN  /\ key_states' = MarkError(AsRead(key_states, k, marking[t].read),
                                      k, d)
           /\ last' = Result("report_failure", k, NoKey, 0, 0, FALSE, d)
           /\ disabled' = IF d /\ InPool(k) THEN disabled \cup {k}
                          ELSE disabled
    /\ lock' = NoThread
    /\ pc' = [pc EXCEPT ![t] = "idle"]
    /\ marking' = [marking EXCEPT ![t] = NotMarking]
    /\ calls' = calls + 1
    /\ report' = NoReport
    /\ fresh' = FALSE
    /\ grants' = <<>>
    /\ UNCHANGED <<current_index, rate_limit_seconds, now, threads,
                   start_time, max_wait_seconds, wake, acked, chat>>
    /\ Ghosts(t)

\* lines 172-178: enable_all_keys()
EnableAllKeys(t) ==
    /\ Call(t)
    /\ Acquirable(lock)
    /\ key_states' = EnableAll(key_states)
    /\ last' = Result("enable_all", <<>>, NoKey, 0, 0, FALSE,
                      \E i \in 1..Len(key_states) :
                          ~key_states[i].is_available)
    /\ report' = NoReport
    /\ disabled' = {}
    /\ UNCHANGED <<current_index, rate_limit_seconds, lock, now, threads, pc,
                   start_time, max_wait_seconds, wake, acked, fresh,
                   grants>>
    /\ UNCHANGED <<marking, chat>>
    /\ Ghosts(t)

\* lines 180-214: get_status()
GetStatus(t) ==
    /\ Call(t)
    /\ Acquirable(lock)
    /\ report' = Status(key_states, now, rate_limit_seconds)
    /\ last' = Returned("status", NoKey)
    /\ UNCHANGED <<key_states, current_index, rate_limit_seconds, lock, now,
                   threads, pc, start_time, max_wait_seconds, wake,
                   acked, disabled, fresh, grants>>
    /\ UNCHANGED <<marking, chat>>
    /\ Ghosts(t)

\* line 111: wait_for_available_key(max_wait_seconds) is entered
WaitCall(t, mw) ==
    /\ Call(t)
    /\ pc' = [pc EXCEPT ![t] = "loop"]
    /\ start_time' = [start_time EXCEPT ![t] = now]
    /\ max_wait_seconds' = [max_wait_seconds EXCEPT ![t] = mw]
    /\ last' = Result("wait", <<>>, NoKey, mw, 0, FALSE, FALSE)
    /\ report' = NoReport
    /\ UNCHANGED <<key_states, current_index, rate_limit_seconds, lock, now,
                   threads, wake, acked, disabled, fresh, grants>>
    /\ UNCHANGED <<marking, chat>>
    /\ Ghosts(t)

\* the caller leaves wait_for_available_key
Leave(t) ==
    /\ pc' = [pc EXCEPT ![t] = "idle"]
    /\ start_time' = [start_time EXCEPT ![t] = 0]
    /\ max_wait_seconds' = [max_wait_seconds EXCEPT ![t] = 0]
    /\ wake' = [wake EXCEPT ![t] = 0]

\* line 113: the loop test, and lines 132-133 when it fails
WaitLoop(t) ==
    /\ t \in threads
    /\ pc[t] = "loop"
    /\ IF now - start_time[t] < max_wait_seconds[t]
       THEN /\ pc' = [pc EXCEPT ![t] = "get"]
            /\ UNCHANGED <<start_time, max_wait_seconds, wake, last,
                           report>>
       ELSE /\ Leave(t)
            /\ last' = Result("acquire_blocking", <<>>, NoKey,
                              max_wait_seconds[t], now - start_time[t],
                              saw[t], FALSE)
            /\ report' = NoReport
    /\ UNCHANGED <<key_states, current_index, rate_limit_seconds, lock, now,
                   threads, acked, disabled, fresh, grants>>
    /\ UNCHANGED calls
    /\ UNCHANGED <<marking, chat>>
    /\ Ghosts(t)

\* lines 114-116: key = self.get_available_key(); if key: return key
WaitGet(t) ==
    /\ t \in threads
    /\ pc[t] = "get"
    /\ key_states = <<>> \/ Acquirable(lock)
    /\ LET r == GetAvailableKey(key_states, current_index, now,
                                rate_limit_seconds)
       IN  /\ current_index' = r.index
           /\ key_states' = SlotsAfterGet(key_states, r.ret, now)
           /\ grants' = Granted(r.ret)
           /\ IF Truthy(r.ret)
              THEN /\ Leave(t)
                   /\ last' = Result("acquire_blocking", <<>>, r.ret,
                                     max_wait_seconds[t],
                                     now - start_time[t], TRUE, FALSE)
              ELSE /\ pc' = [pc EXCEPT ![t] = "calc"]
                   /\ last' = Returned("try_acquire", r.ret)
                   /\ UNCHANGED <<start_time, max_wait_seconds, wake>>
    /\ report' = NoReport
    /\ UNCHANGED <<rate_limit_seconds, lock, now, threads, acked,
                   disabled, fresh>>
    /\ UNCHANGED calls
    /\ UNCHANGED <<marking, chat>>
    /\ Ghosts(t)

\* lines 119-130: with self.lock: ... time.sleep(sleep_time) begins
WaitSleep(t) ==
    /\ t \in threads
    /\ pc[t] = "calc"
    /\ Acquirable(lock)
    /\ lock' = t
    /\ wake' = [wake EXCEPT ![t] =
                  now + SleepTime(key_states, now, rate_limit_seconds)]
    /\ pc' = [pc EXCEPT ![t] = "sleep"]
    /\ UNCHANGED <<key_states, current_index, rate_limit_seconds, now,
                   threads, start_time, max_wait_seconds, last, report, acked,
                   disabled, fresh, grants>>
    /\ UNCHANGED calls
    /\ UNCHANGED <<marking, chat>>
    /\ Ghosts(t)

\* line 130 returns: the sleep is over and the with block releases the lock
WaitWake(t) ==
    /\ t \in threads
    /\ pc[t] = "sleep"
    /\ now >= wake[t]
    /\ lock' = NoThread
    /\ pc' = [pc EXCEPT ![t] = "loop"]
    /\ UNCHANGED <<key_states, current_index, rate_limit_seconds, now,
                   threads, start_time, max_wait_seconds, wake, last,
                   report, acked, disabled, fresh, grants>>
    /\ UNCHANGED calls
    /\ UNCHANGED <<marking, chat>>
    /\ Ghosts(t)

\* the caller can take a step now without the clock moving
Runnable(t) ==
    \/ pc[t] = "loop"
    \/ pc[t] = "mark"
    \/ pc[t] = "get" /\ (key_states = <<>> \/ Acquirable(lock))
    \/ pc[t] = "calc" /\ Acquirable(lock)
    \/ pc[t] = "sleep" /\ now >= wake[t]

\* time.time() advances
Tick ==
    /\ now < MaxTime
    /\ \A t \in threads : ~Runnable(t)
    /\ now' = now + 1
    /\ UNCHANGED <<key_states, current_index, rate_limit_seconds, lock,
                   threads, pc, start_time, max_wait_seconds, wake,
                   last, report, acked, disabled, fresh, grants>>
    /\ UNCHANGED calls
    /\ UNCHANGED <<marking, chat>>
    /\ Ghosts(NoThread)

Next ==
    \/ \E t \in AllThreads : TryAcquire(t)
    \/ \E t \in AllThreads, k \in AnyKey : MarkKeyUsed(t, k)
    \/ \E t \in AllThreads, k \in AnyKey, d \in BOOLEAN : MarkKeyError(t, k, d)
    \/ \E t \in AllThreads : EnableAllKeys(t)
    \/ \E t \in AllThreads : GetStatus(t)
    \/ \E t \in AllThreads, mw \in 0..MaxWait : WaitCall(t, mw)
    \/ \E t \in AllThreads : WaitLoop(t)
    \/ \E t \in AllThreads : WaitGet(t)
    \/ \E t \in AllThreads : WaitSleep(t)
    \/ \E t \in AllThreads : WaitWake(t)
    \/ Tick

\* one caller
Spec == Init /\ [][Next]_vars

\* two concurrent callers, on the pools of at most one credential
InitConc == InitManager({1, 2}, {p \in Pools : Len(p) <= 1}, MaxCalls)
SpecConc == InitConc /\ [][Next]_vars

\* one caller on the pool [A, B], making as many calls as the end-to-end
\* scenario has
InitE2E == InitManager({1}, {ScriptPool}, ScriptLen)
SpecE2E == InitE2E /\ [][Next]_vars

\* one caller on a manager constructed at the origin of the clock, where
\* time.time() is smaller than rate_limit_seconds
InitOrigin == InitManagerAt({1}, Pools, MaxCalls, 0)
SpecOrigin == InitOrigin /\ [][Next]_vars

\* ---- src/agent/core.py, LLMClient.chat_completion, on the key manager

\* line 46: max_wait_seconds=30.0, here the longest wait the model follows
ChatMaxWait == MaxWait

\* line 46: chat_completion calls wait_for_available_key
ChatCompletion(t) ==
    /\ chat[t].at = "idle"
    /\ Call(t)
    /\ pc' = [pc EXCEPT ![t] = "loop"]
    /\ start_time' = [start_time EXCEPT ![t] = now]
    /\ max_wait_seconds' = [max_wait_seconds EXCEPT ![t] = ChatMaxWait]
    /\ last' = Result("wait", <<>>, NoKey, ChatMaxWait, 0, FALSE, FALSE)
    /\ report' = NoReport
    /\ chat' = [chat EXCEPT ![t] = [NotChatting EXCEPT !.at = "wait"]]
    /\ UNCHANGED <<key_states, current_index, rate_limit_seconds, lock, now,
                   threads, wake, acked, disabled, fresh, grants, marking>>
    /\ Ghosts(t)

\* what a step of chat_completion outside the key manager leaves alone
ChatOnly ==
    UNCHANGED <<key_states, current_index, rate_limit_seconds, lock, now,
                threads, pc, start_time, max_wait_seconds, wake, last,
                report, acked, disabled, fresh, grants, calls, marking>>

\* lines 46-48: wait_for_available_key has returned api_key; without one
\* chat_completion raises
ChatKey(t) ==
    /\ t \in threads
    /\ chat[t].at = "wait"
    /\ pc[t] = "idle"
    /\ chat' = [chat EXCEPT ![t] =
                  IF Truthy(last.ret)
                  THEN [@ EXCEPT !.at = "post", !.key = last.ret]
                  ELSE [@ EXCEPT !.at = "idle", !.out = "no_key"]]
    /\ ChatOnly
    /\ Ghosts(t)

\* lines 66-100: the request ends with response o; the try block and the
\* except clauses decide the calls to make on the key manager
ChatResponse(t, o) ==
    /\ t \in threads
    /\ chat[t].at = "post"
    /\ chat' = [chat EXCEPT ![t] =
                  [@ EXCEPT !.at = "report", !.out = o, !.todo = ChatPlan(o)]]
    /\ ChatOnly
    /\ Ghosts(t)

\* lines 76, 86, 94 and 99: the next of these calls, mark_key_used(api_key)
\* or mark_key_error(api_key, disable_temporarily=False)
ChatReport(t) ==
    /\ Idle(t)
    /\ chat[t].at = "report"
    /\ chat[t].todo # <<>>
    /\ Acquirable(lock)
    /\ LET k == chat[t].key.key
       IN  IF Head(chat[t].todo) = "mark_key_used"
           THEN /\ key_states' = MarkUsed(key_states, k, now)
                /\ last' = Result("report_success", k, NoKey, 0, 0, FALSE,
                                  FALSE)
                /\ acked' = IF InPool(k) THEN [acked EXCEPT ![k] = now]
                            ELSE acked
           ELSE /\ key_states' = MarkError(key_states, k, FALSE)
                /\ last' = Result("report_failure", k, NoKey, 0, 0, FALSE,
                                  FALSE)
                /\ acked' = acked
    /\ calls' = calls + 1
    /\ chat' = [chat EXCEPT ![t] =
                  [@ EXCEPT !.todo = Tail(@), !.n = @ + 1]]
    /\ report' = NoReport
    /\ fresh' = FALSE
    /\ grants' = <<>>
    /\ UNCHANGED <<current_index, rate_limit_seconds, lock, now, threads, pc,
                   start_time, max_wait_seconds, wake, disabled, marking>>
    /\ Ghosts(t)

\* lines 88, 95 and 100: chat_completion returns or raises
ChatReturn(t) ==
    /\ t \in threads
    /\ chat[t].at = "report"
    /\ chat[t].todo = <<>>
    /\ chat' = [chat EXCEPT ![t] = [@ EXCEPT !.at = "idle"]]
    /\ ChatOnly
    /\ Ghosts(t)

\* one caller that uses the key manager through chat_completion only
NextClient ==
    \/ \E t \in AllThreads : ChatCompletion(t)
    \/ \E t \in AllThreads : ChatKey(t)
    \/ \E t \in AllThreads, o \in Responses : ChatResponse(t, o)
    \/ \E t \in AllThreads : ChatReport(t)
    \/ \E t \in AllThreads : ChatReturn(t)
    \/ \E t \in AllThreads : WaitLoop(t)
    \/ \E t \in AllThreads : WaitGet(t)
    \/ \E t \in AllThreads : WaitSleep(t)
    \/ \E t \in AllThreads : WaitWake(t)
    \/ Tick
InitClient == InitManager({1}, Pools, MaxCalls)
SpecClient == InitClient /\ [][NextClient]_vars

\* two concurrent callers whose mark_key_error calls take two steps, on
\* every pool, calling at one instant and without wait_for_available_key
NextRace ==
    \/ \E t \in AllThreads : TryAcquire(t)
    \/ \E t \in AllThreads, k \in AnyKey : MarkKeyUsed(t, k)
    \/ \E t \in AllThreads, k \in AnyKey, d \in BOOLEAN :
          MarkKeyErrorRead(t, k, d)
    \/ \E t \in AllThreads : MarkKeyErrorWrite(t)
    \/ \E t \in AllThreads : EnableAllKeys(t)
    \/ \E t \in AllThreads : GetStatus(t)
InitRace == InitManager({1, 2}, Pools, MaxCalls)
SpecRace == InitRace /\ [][NextRace]_vars

\* --------------------------------------------------------------- claims

Acquisitions == {"try_acquire", "acquire_blocking"}

\* the step is a call of operation op
Called(op) == calls' = calls + 1 /\ last'.op = op
\* the step is a run of get_available_key, called directly or by
\* wait_for_available_key
GetKeyStep ==
    \/ Called("try_acquire")
    \/ \E t \in threads : pc[t] = "get" /\ pc'[t] # "get"
Holders(k) == {i \in 1..Len(key_states) : key_states[i].key = k}

\* C1: in a pool holding the single credential k, once mark_key_used(k) has
\* been called at time T, every get_available_key made before
\* T + rate_limit_seconds returns None, whatever was called in between.
C1_CooldownRespected ==
    \A k \in Credentials :
        ( /\ Len(key_states) = 1
          /\ key_states[1].key = k
          /\ acked[k] # Never
          /\ now < acked[k] + rate_limit_seconds
          /\ last.op \in Acquisitions )
        => ~last.ret.some

\* a get_available_key on an enabled single credential, inside the cooldown
\* that followed its mark_key_used, has returned None
C1_Witness ==
    /\ Len(key_states) = 1
    /\ key_states[1].is_available
    /\ acked[key_states[1].key] # Never
    /\ now > acked[key_states[1].key]
    /\ now < acked[key_states[1].key] + rate_limit_seconds
    /\ last.op = "try_acquire"
    /\ ~last.ret.some

\* C2: on a manager that has received no mark_key_used/mark_key_error, the
\* first N get_available_key calls return the credentials of slots 0..N-1
\* in that order, none skipped and none of them None.
C2_Fairness ==
    \A j \in 1..Len(grants) : grants[j] = Some(key_states[j].key)

\* a fresh manager with the most credentials has served each of them once
C2_Witness ==
    /\ fresh
    /\ Len(key_states) = MaxKeys
    /\ Len(grants) = Len(key_states)
    /\ key_states[1].key # key_states[MaxKeys].key

\* C3: while a caller sleeps inside wait_for_available_key the lock is
\* free, so that the other callers' operations need not wait for the sleep
\* to end.
C3_LockFreeWhileSleeping ==
    \A t \in threads : pc[t] = "sleep" => lock = NoThread

\* C4: when every slot is disabled or inside its cooldown, get_available_key
\* returns None and leaves the cursor where it was before the call.
C4_Exhaustion ==
    [][(GetKeyStep /\ ~AnyEligible(key_states, now, rate_limit_seconds))
          => (~last'.ret.some /\ current_index' = current_index)]_vars

\* get_available_key has returned None on two slots, one disabled and one
\* cooling down, with the cursor on the second slot
C4_Witness ==
    /\ Len(key_states) = 2
    /\ current_index = 1
    /\ \E i \in 1..2 : ~key_states[i].is_available
    /\ \E i \in 1..2 :
          /\ key_states[i].is_available
          /\ now - key_states[i].last_used < rate_limit_seconds
    /\ last.op = "try_acquire"
    /\ ~last.ret.some

\* C5: a wait_for_available_key(max_wait) during which no slot was eligible
\* returns None after at least max_wait and at most max_wait + 0.5 s, also
\* while other callers use the manager.
C5_TimeoutBound ==
    (last.op = "acquire_blocking" /\ ~last.saw)
    => ( /\ ~last.ret.some
         /\ last.elapsed >= last.wait
         /\ last.elapsed <= last.wait + PollCap )

\* C6: wait_for_available_key(max_wait) never returns a credential later
\* than max_wait after it was called.
C6_NoCredentialAfterDeadline ==
    (last.op = "acquire_blocking" /\ last.ret.some)
    => last.elapsed <= last.wait

\* C7: with no credential configured, get_status reports total_keys = 0 and
\* get_available_key and wait_for_available_key return None at once.
C7_EmptyPool ==
    key_states = <<>> =>
        /\ last.op = "status" => report.total_keys = 0
        /\ last.op \in Acquisitions => (~last.ret.some /\ last.elapsed = 0)

\* C8: a credential held by one slot and disabled by
\* mark_key_error(k, disable_temporarily=True) is returned by no
\* get_available_key or wait_for_available_key until enable_all_keys.
C8_Disablement ==
    \A k \in Credentials :
        ( /\ k \in disabled
          /\ Cardinality(Holders(k)) = 1
          /\ last.op \in Acquisitions
          /\ last.ret.some )
        => last.ret.key # k

\* the only credential was disabled before it was ever used, a full
\* cooldown has passed since construction, and get_available_key has
\* returned None
C8_Witness ==
    /\ Len(key_states) = 1
    /\ key_states[1].key \in disabled
    /\ acked[key_states[1].key] = Never
    /\ now >= ClockStart + rate_limit_seconds
    /\ last.op = "try_acquire"
    /\ ~last.ret.some

\* the time of the last mark_key_used that reached slot i, Never if none
SuccessAt(i) ==
    IF FirstSlot(key_states, key_states[i].key) = i
    THEN acked[key_states[i].key] ELSE Never

\* a get_available_key at time t whose scan starts on slot i of ks returns
\* that slot
Grants(ks, i, t) ==
    LET r == GetAvailableKey(ks, i - 1, t, rate_limit_seconds)
    IN  r.ret.some /\ r.index = i % Len(ks)

\* C9: enable_all_keys leaves last_used of a disabled slot as it was, and
\* from then on the slot is handed out exactly at the times that are at
\* least rate_limit_seconds after its last mark_key_used: at once if that
\* time has passed, and not before it otherwise.
C9_EnableRoundTrip ==
    [][Called("enable_all") =>
          \A i \in 1..Len(key_states) :
              ~key_states[i].is_available =>
                  /\ key_states'[i].last_used = key_states[i].last_used
                  /\ \A tt \in now..MaxTime :
                        Grants(key_states', i, tt) <=>
                          ( \/ SuccessAt(i) = Never
                            \/ tt >= SuccessAt(i) + rate_limit_seconds )]_vars

\* enable_all_keys has re-enabled the only slot, which is still inside the
\* cooldown of its last mark_key_used
C9_Witness ==
    /\ Len(key_states) = 1
    /\ last.op = "enable_all"
    /\ last.flag
    /\ key_states[1].is_available
    /\ acked[key_states[1].key] # Never
    /\ now < acked[key_states[1].key] + rate_limit_seconds

\* C10: mark_key_used and mark_key_error with a credential that no slot
\* holds change no slot and not the cursor, however often they are called.
C10_UnknownReports ==
    [][( /\ Called("report_success") \/ Called("report_failure")
         /\ ~InPool(last'.arg) )
          => UNCHANGED <<key_states, current_index>>]_vars

\* mark_key_error(unknown, True) has been called on a pool of two slots
\* that are still enabled, unused and free of errors
C10_Witness ==
    /\ Len(key_states) = 2
    /\ last.op = "report_failure"
    /\ last.arg = KeyX
    /\ last.flag
    /\ \A i \in 1..2 :
          /\ key_states[i].is_available
          /\ key_states[i].error_count = 0
          /\ key_states[i].last_used = 0

\* what the calls of the end-to-end scenario return
ScriptReturns ==
    << Some(KeyA), Some(KeyB), NoKey, Some(KeyB), NoKey, NoKey, Some(KeyA) >>

\* C11: on the pool [A, B], get_available_key returns A, then B; after
\* mark_key_used(A) the next get_available_key inside A's cooldown returns B
\* again; after mark_key_used(B), a get_available_key inside both cooldowns
\* returns None, and one made once A's cooldown is over returns A.
C11_EndToEnd ==
    script \in 1..ScriptLen => last.ret = ScriptReturns[script]

\* the scenario has been followed to its last call, with B marked used
\* later than A and still inside its cooldown
C11_Witness ==
    /\ script = ScriptLen
    /\ acked[KeyB] > acked[KeyA]
    /\ now < acked[KeyB] + rate_limit_seconds
    /\ last.ret = Some(KeyA)

\* the slot a get_available_key that returned a credential took it from:
\* the one before the cursor it left
GrantedSlot == ((current_index + Len(key_states) - 1) % Len(key_states)) + 1

\* C12: the manager gives no exclusivity: a get_available_key that returns
\* a credential leaves its slot one that a second get_available_key, made
\* at the same time and reaching that slot, returns again, so two callers
\* can hold the same credential before either of them reports.
C12_NoExclusivity ==
    [][GetKeyStep /\ last'.ret.some
       => Grants(key_states', GrantedSlot', now')]_vars

\* two callers hold the same credential, and neither has reported on it
C12_Witness ==
    /\ threads = {1, 2}
    /\ held[1].some
    /\ held[1] = held[2]
    /\ fresh

\* C13: the key_suffix that get_status reports for a slot never contains
\* the slot's whole credential, whatever the credential's length.
C13_Redaction ==
    last.op = "status" =>
        \A i \in 1..Len(key_states) :
            ~Contains(report.keys[i].key_suffix, key_states[i].key)

\* C14: get_available_key, whether it returns a credential or None, leaves
\* last_used, is_available and error_count of every slot as they were; only
\* current_index may change.
C14_NoSlotEffect ==
    [][GetKeyStep =>
          /\ Len(key_states') = Len(key_states)
          /\ \A i \in 1..Len(key_states) :
                 /\ key_states'[i].last_used = key_states[i].last_used
                 /\ key_states'[i].is_available = key_states[i].is_available
                 /\ key_states'[i].error_count = key_states[i].error_count]_vars

\* get_available_key has skipped a cooling slot and returned the next one,
\* which has errors counted
C14_Witness ==
    /\ last.op = "try_acquire"
    /\ Len(key_states) >= 2
    /\ last.ret = Some(key_states[2].key)
    /\ key_states[1].last_used > 0
    /\ key_states[2].error_count > 0

\* C15: get_status changes neither current_index nor any slot, and what it
\* reports, for every slot and in its counters, is the one state of the pool
\* at the call, also when another caller is in the middle of an operation.
C15_StatusPureRead ==
    [][Called("status") =>
          /\ UNCHANGED <<key_states, current_index>>
          /\ report'.total_keys = Len(key_states)
          /\ Len(report'.keys) = Len(key_states)
          /\ \A i \in 1..Len(key_states) :
                 /\ report'.keys[i].is_available = key_states[i].is_available
                 /\ report'.keys[i].error_count = key_states[i].error_count
                 /\ report'.keys[i].time_until_available =
                        Max(0, rate_limit_seconds
                               - (now - key_states[i].last_used))
          /\ report'.disabled_keys =
                 Cardinality({i \in 1..Len(key_states) :
                                 ~key_states[i].is_available})
          /\ report'.available_keys + report'.rate_limited_keys
                 + report'.disabled_keys = Len(key_states)]_vars

\* get_status has reported a disabled slot while another caller was inside
\* wait_for_available_key
C15_Witness ==
    /\ last.op = "status"
    /\ report.disabled_keys = 1
    /\ \E t \in threads : pc[t] # "idle"

\* C16, as stated: in every state, for every pool size including the empty
\* pool, 0 <= current_index < len(key_states).
C16_CursorInRange ==
    0 <= current_index /\ current_index < Len(key_states)

\* C16, amended: for every non-empty pool 0 <= current_index <
\* len(key_states) in every state; for the empty pool, where no index is
\* in range, current_index stays 0.
C16_CursorInRangeNonEmpty ==
    IF key_states = <<>>
    THEN current_index = 0
    ELSE 0 <= current_index /\ current_index < Len(key_states)

\* get_available_key has returned the last slot of a pool of two or more
\* and the cursor has wrapped to the first
C16_Witness ==
    /\ Len(key_states) >= 2
    /\ last.op = "try_acquire"
    /\ last.ret = Some(key_states[Len(key_states)].key)
    /\ current_index = 0
    /\ calls >= 2

\* slot i is available and its cooldown is over
Ready(i) ==
    /\ key_states[i].is_available
    /\ now - key_states[i].last_used >= rate_limit_seconds
\* the slot d places after the cursor, in cyclic order
SlotAt(d) == ((current_index + d) % Len(key_states)) + 1
\* how far after the cursor the ready slots are
ReadyAhead == {d \in 0..(Len(key_states) - 1) : Ready(SlotAt(d))}
\* the least element of a non-empty set of numbers
Least(S) == CHOOSE d \in S : \A e \in S : d <= e

\* C17: get_available_key returns the credential of the first slot, in
\* cyclic order from the cursor, that is available and whose cooldown is
\* over, and None exactly when there is no such slot: it never returns a
\* slot that is not ready and never passes over one that is.
C17_FirstEligible ==
    [][GetKeyStep =>
          IF key_states = <<>> \/ ReadyAhead = {}
          THEN ~last'.ret.some
          ELSE last'.ret = Some(key_states[SlotAt(Least(ReadyAhead))].key)]_vars

\* with the cursor on a disabled first slot, get_available_key has returned
\* the second slot, whose cooldown had ended
C17_Witness ==
    /\ Len(key_states) >= 2
    /\ last.op = "try_acquire"
    /\ ~key_states[1].is_available
    /\ key_states[2].last_used > 0
    /\ last.ret = Some(key_states[2].key)
    /\ current_index = 2 % Len(key_states)

\* the slots a get_available_key made in this state looks at: up to and
\* including the first ready one, all of them if none is ready
Examined ==
    IF ReadyAhead = {} THEN Len(key_states) ELSE Least(ReadyAhead) + 1

\* C18: get_available_key looks at no more than len(key_states) slots and
\* moves current_index by one, modulo len(key_states), for each slot it
\* looks at: after it returned slot i the cursor is (i + 1) mod len, and
\* after a full scan that returned None it is where it was.
C18_CursorMovement ==
    [][GetKeyStep /\ key_states # <<>> =>
          /\ Examined <= Len(key_states)
          /\ current_index' = (current_index + Examined) % Len(key_states)
          /\ last'.ret.some =>
                 /\ last'.ret.key = key_states[GrantedSlot'].key
                 /\ GrantedSlot' = SlotAt(Examined - 1)
          /\ ~last'.ret.some => current_index' = current_index]_vars

\* a full scan from the second slot has returned None and left the cursor
\* on the second slot
C18_Witness ==
    /\ Len(key_states) >= 2
    /\ last.op = "try_acquire"
    /\ ~last.ret.some
    /\ current_index = 1

\* C19: a slot that stays eligible is not passed over for long: among any
\* len(key_states) get_available_key calls in a row that return a
\* credential while slot k is eligible throughout, one returns slot k.
C19_NoStarvation ==
    \A k \in 1..Len(key_states) : passed[k] < Len(key_states)

\* after a report, get_available_key has returned a slot while another one,
\* eligible throughout, had been passed over len(key_states) - 1 times
C19_Witness ==
    /\ Len(key_states) >= 2
    /\ ~fresh
    /\ last.op = "try_acquire"
    /\ last.ret.some
    /\ passed[GrantedSlot] = 0
    /\ \E k \in 1..Len(key_states) : passed[k] = Len(key_states) - 1

\* C20: last_used of a slot changes only in a mark_key_used called with
\* that slot's credential, which sets it to the current time (for the first
\* slot holding the credential); every other operation leaves it as it was.
C20_LastUsedWrites ==
    [][/\ Len(key_states') = Len(key_states)
       /\ \A i \in 1..Len(key_states) :
              /\ key_states'[i].last_used # key_states[i].last_used =>
                     /\ Called("report_success")
                     /\ last'.arg = key_states[i].key
                     /\ key_states'[i].last_used = now
              /\ Called("report_success")
                 /\ FirstSlot(key_states, last'.arg) = i =>
                     key_states'[i].last_used = now]_vars

\* mark_key_used has stamped one slot with the current time while another
\* slot kept its earlier stamp
C20_Witness ==
    /\ Len(key_states) >= 2
    /\ last.op = "report_success"
    /\ \E i, j \in 1..Len(key_states) :
           /\ key_states[i].key = last.arg
           /\ key_states[i].last_used = now
           /\ key_states[j].last_used > 0
           /\ key_states[j].last_used < now

\* C21: a slot that no mark_key_used has touched since construction is not
\* in cooldown: while it is available, get_available_key does not return
\* None, at any time, also less than rate_limit_seconds after the origin of
\* the clock.
C21_NeverUsedEligible ==
    (last.op = "try_acquire" /\ ~last.ret.some) =>
        \A i \in 1..Len(key_states) :
            key_states[i].is_available => acked[key_states[i].key] # Never

\* the slots whose entry in the report r satisfies P
Reported(r, P(_)) == {i \in 1..Len(r.keys) : P(r.keys[i])}

\* C22: the counters of get_status partition the pool: every slot is counted
\* once, as ready, as available but cooling, or as disabled; the ready
\* counter is the number of slots reported ready_now; a slot is reported
\* ready_now exactly when get_available_key at that instant would take it
\* as eligible; time_until_available is never negative.
C22_StatusPartition ==
    [][Called("status") =>
          LET r == report'
              IsReady(e) == e.ready_now
              IsCooling(e) == e.is_available /\ ~e.ready_now
              IsDisabled(e) == ~e.is_available
          IN  /\ Len(r.keys) = Len(key_states)
              /\ r.total_keys = Len(key_states)
              /\ r.available_keys = Cardinality(Reported(r, IsReady))
              /\ r.rate_limited_keys = Cardinality(Reported(r, IsCooling))
              /\ r.disabled_keys = Cardinality(Reported(r, IsDisabled))
              /\ r.total_keys = r.available_keys + r.rate_limited_keys
                                   + r.disabled_keys
              /\ \A i \in 1..Len(key_states) :
                     /\ r.keys[i].ready_now <=> Ready(i)
                     /\ r.keys[i].time_until_available >= 0]_vars

\* get_status has reported one slot disabled, whose cooldown is over, and
\* another one cooling
C22_Witness ==
    /\ last.op = "status"
    /\ report.disabled_keys = 1
    /\ report.rate_limited_keys = 1
    /\ \E i \in 1..Len(report.keys) :
           /\ ~report.keys[i].is_available
           /\ report.keys[i].time_until_available = 0

\* C23: error_count of every slot is never negative and goes down only in
\* enable_all_keys, which sets it to 0 in every slot; mark_key_error on a
\* credential of the pool adds exactly 1 to the first slot holding it,
\* disabling or not, and without disable_temporarily leaves is_available
\* as it was.
C23_ErrorCount ==
    [][/\ Len(key_states') = Len(key_states)
       /\ \A i \in 1..Len(key_states) :
              /\ key_states'[i].error_count >= 0
              /\ key_states'[i].error_count < key_states[i].error_count
                    => Called("enable_all")
              /\ Called("enable_all") => key_states'[i].error_count = 0
              /\ Called("report_failure")
                 /\ FirstSlot(key_states, last'.arg) = i =>
                     /\ key_states'[i].error_count
                           = key_states[i].error_count + 1
                     /\ ~last'.flag =>
                           key_states'[i].is_available
                              = key_states[i].is_available]_vars

\* a slot that has been used successfully has failed twice without being
\* disabled
C23_Witness ==
    /\ last.op = "report_failure"
    /\ ~last.flag
    /\ \E i \in 1..Len(key_states) :
           /\ key_states[i].key = last.arg
           /\ key_states[i].error_count = 2
           /\ key_states[i].is_available
           /\ key_states[i].last_used > 0

\* C24: the operations of concurrent callers are atomic: no mark_key_error
\* is lost, so the error_count of a credential's slot is the number of
\* mark_key_error calls completed on it since the last enable_all_keys,
\* whichever callers made them, and concurrent get_available_key calls leave
\* current_index in its range.
C24_NoLostUpdate ==
    /\ \A i \in 1..Len(key_states) :
           FirstSlot(key_states, key_states[i].key) = i =>
               key_states[i].error_count = failed[key_states[i].key]
    /\ key_states # <<>> =>
           (0 <= current_index /\ current_index < Len(key_states))

\* one caller is inside mark_key_error on a credential on which a
\* mark_key_error has already been completed, while the cursor has moved
C24_Witness ==
    /\ threads = {1, 2}
    /\ pc[2] = "mark"
    /\ InPool(marking[2].arg)
    /\ marking[2].read = 1
    /\ current_index = 1

\* caller t returns from wait_for_available_key in this step
WaitReturns(t) == pc[t] \in {"loop", "get"} /\ pc'[t] = "idle"
\* some slot was eligible when caller t, still waiting, made its call
\* (no other caller has changed the slots since)
EligibleAtCall(t) ==
    AnyEligible(key_states, start_time[t], rate_limit_seconds)

\* C25: wait_for_available_key(max_wait) returns a credential at once,
\* without sleeping, whenever a get_available_key made at the moment of the
\* call would return one, for every max_wait >= 0.
C25_ImmediateReturn ==
    [][\A t \in threads :
          WaitReturns(t) /\ EligibleAtCall(t)
          => (last'.ret.some /\ last'.elapsed = 0)]_vars

\* the cooldown of some available slot ends strictly before the deadline of
\* caller t's wait (no other caller has changed the slots since the call)
FreesBeforeDeadline(t) ==
    \E i \in 1..Len(key_states) :
        /\ key_states[i].is_available
        /\ key_states[i].last_used + rate_limit_seconds
              < start_time[t] + max_wait_seconds[t]

\* C26: for a single caller, when the cooldown of some available slot ends
\* strictly before call time + max_wait, wait_for_available_key returns a
\* credential, not None, and returns it no later than that deadline.
C26_WaitSucceeds ==
    [][\A t \in threads :
          WaitReturns(t) /\ FreesBeforeDeadline(t)
          => /\ last'.ret.some
             /\ now <= start_time[t] + max_wait_seconds[t]]_vars

\* C27: a chat_completion call that obtained a credential reports exactly
\* one outcome for it to the key manager before it returns or raises:
\* mark_key_used after a successful response, and otherwise one
\* mark_key_error without disable_temporarily (on HTTP 429, on a transport
\* or HTTP error, on an invalid response); a call that obtained no
\* credential reports nothing.
C27_OneOutcome ==
    \A t \in threads :
        (chat[t].at = "idle" /\ chat[t].out # "") =>
            IF chat[t].out = "no_key"
            THEN chat[t].n = 0 /\ last.op = "acquire_blocking"
            ELSE /\ chat[t].n = 1
                 /\ last.arg = chat[t].key.key
                 /\ IF chat[t].out = "ok"
                    THEN last.op = "report_success"
                    ELSE last.op = "report_failure" /\ ~last.flag

\* a chat_completion that was answered with HTTP 429 has raised after one
\* mark_key_error on its credential, which had been used before
C27_Witness ==
    /\ chat[1].at = "idle"
    /\ chat[1].out = "http429"
    /\ chat[1].n = 1
    /\ \E i \in 1..Len(key_states) :
           /\ key_states[i].key = chat[1].key.key
           /\ key_states[i].error_count = 1
           /\ key_states[i].last_used > 0

\* C28: mark_key_used and mark_key_error write at most one slot, the first
\* slot in pool order that holds the credential of the call; every other
\* slot, a later slot holding an equal credential included, and the cursor
\* are as they were before the call.
C28_OneSlotPerReport ==
    [][(Called("report_success") \/ Called("report_failure")) =>
         LET i == FirstSlot(key_states, last'.arg)
         IN  /\ current_index' = current_index
             /\ Len(key_states') = Len(key_states)
             /\ \A j \in 1..Len(key_states) :
                    /\ key_states'[j].key = key_states[j].key
                    /\ j # i => key_states'[j] = key_states[j]]_vars

\* in a pool that holds one credential twice, mark_key_used has stamped the
\* first slot and a mark_key_error that disables has then written the same
\* slot, while the second slot is as constructed
C28_Witness ==
    /\ Len(key_states) = 2
    /\ key_states[1].key = key_states[2].key
    /\ last.op = "report_failure"
    /\ last.arg = key_states[1].key
    /\ last.flag
    /\ key_states[1].last_used = now
    /\ key_states[1].error_count = 1
    /\ ~key_states[1].is_available
    /\ key_states[2].last_used = 0
    /\ key_states[2].error_count = 0
    /\ key_states[2].is_available
====
